---- MODULE Spec2Model ----
(***************************************************************************)
(* A model of the Lab4 software rasterizer: the frame loop of main.rs, the *)
(* vertex pipeline and the procedural shaders of shaders.rs, the Fragment  *)
(* of fragment.rs, and the framebuffer / rasterizer / matrix helpers those *)
(* files call.                                                             *)
(*                                                                         *)
(* f32 values are modelled in fixed point: the integer n stands for the    *)
(* real number n / SCALE.  Products and quotients truncate toward zero.    *)
(* sin, cos, asin, atan2 and sqrt are computed by integer approximations   *)
(* of the library functions.                                               *)
(***************************************************************************)
EXTENDS Integers, Sequences, FiniteSets, TLC

SCALE == 10 * 100

\* ------------------------------------------------------------------ bounds
\* The window of main.rs is 1300 x 900; the model keeps its aspect at a
\* size TLC can enumerate.
FbWidth == 26
FbHeight == 18
\* Frames the loop may start before the model stops starting new ones.
MaxFrames == 2
\* Point calls of one framebuffer history (FbSpec).
MaxCalls == 2
\* Longest vertex array of the triangle-assembly harness.
MaxVerts == 7

SmallWidth == 2

\* ------------------------------------------------------------- f32 helpers
Abs(a) == IF a < 0 THEN -a ELSE a

Max(a, b) == IF a >= b THEN a ELSE b

Min(a, b) == IF a <= b THEN a ELSE b

\* Quotient truncated toward zero (b # 0).
Quot(a, b) == IF (a >= 0) = (b > 0) THEN Abs(a) \div Abs(b) ELSE -(Abs(a) \div Abs(b))

FMul(a, b) == Quot(a * b, SCALE)

FDiv(a, b) == Quot(a * SCALE, b)

\* f32 % : the remainder has the sign of the dividend.
FRem(a, b) == a - b * Quot(a, b)

\* f32::floor, as a whole number
Floor(a) == a \div SCALE

RECURSIVE IsqrtBS(_, _, _)
IsqrtBS(n, lo, hi) ==
    IF lo >= hi THEN lo
    ELSE LET mid == (lo + hi + 1) \div 2
         IN IF mid * mid <= n THEN IsqrtBS(n, mid, hi) ELSE IsqrtBS(n, lo, mid - 1)

Isqrt(n) == IF n <= 0 THEN 0 ELSE IsqrtBS(n, 0, 46340)

\* f32::sqrt
SqrtF(a) == Isqrt(a * SCALE)

\* f32::powi(2), f32::powi(3)
Sq(a) == FMul(a, a)

Cube(a) == FMul(a, FMul(a, a))

PI == 3142

\* sin on [0, PI] (Bhaskara's rational approximation), from p = h (PI - h)
SinHalf(p) == (16 * (p \div 100) * SCALE) \div ((5 * PI * PI - 4 * p) \div 100)

\* sin of an angle reduced to [0, 2 PI)
SinReduced(r) == IF r > PI THEN -SinHalf((r - PI) * (2 * PI - r)) ELSE SinHalf(r * (PI - r))

\* f32::sin
SinF(a) == SinReduced(a % (2 * PI))

\* f32::cos
CosF(a) == SinF(a + PI \div 2)

\* asin on [0, 1]
AsinUnit(m) ==
    1571 - FMul(SqrtF(SCALE - m), 1571 - FMul(212, m) + FMul(74, Sq(m)) - FMul(19, Cube(m)))

\* f32::asin on [-1, 1]
AsinF(a) == IF a < 0 THEN -AsinUnit(Min(-a, SCALE)) ELSE AsinUnit(Min(a, SCALE))

\* atan on [0, 1]
AtanUnit(z) == FMul(785, z) + FMul(273, FMul(z, SCALE - z))

\* atan2 in the first quadrant
AtanQuadrant(ay, ax) ==
    IF ax >= ay THEN AtanUnit(FDiv(ay, ax)) ELSE PI \div 2 - AtanUnit(FDiv(ax, ay))

\* the angle `base` of (|x|, |y|) moved to the quadrant of (x, y)
AtanPlace(y, x, base) ==
    IF y >= 0 THEN (IF x >= 0 THEN base ELSE PI - base)
    ELSE (IF x >= 0 THEN -base ELSE base - PI)

\* y.atan2(x)
Atan2F(y, x) ==
    IF x = 0 /\ y = 0 THEN 0 ELSE AtanPlace(y, x, AtanQuadrant(Abs(y), Abs(x)))

\* f32::clamp
Clamp(a, lo, hi) == Min(Max(a, lo), hi)

\* ----------------------------------------------------------------- vectors
Vector3(x, y, z) == [x |-> x, y |-> y, z |-> z]

Vector4(x, y, z, w) == [x |-> x, y |-> y, z |-> z, w |-> w]

VAdd(a, b) == Vector3(a.x + b.x, a.y + b.y, a.z + b.z)

\* Vector3 * f32
VScale(a, s) == Vector3(FMul(a.x, s), FMul(a.y, s), FMul(a.z, s))

Dot3(a, b) == FMul(a.x, b.x) + FMul(a.y, b.y) + FMul(a.z, b.z)

\* |v|
Length3(v) == SqrtF(Sq(v.x) + Sq(v.y) + Sq(v.z))

\* impl Lerp for Vector3, t already clamped
LerpClamped(self, other, t) ==
    Vector3(self.x + FMul(other.x - self.x, t),
            self.y + FMul(other.y - self.y, t),
            self.z + FMul(other.z - self.z, t))

lerp(self, other, t) == LerpClamped(self, other, Min(Max(t, 0), SCALE))

\* ------------------------------------------------------ noise (shaders.rs)
\* hash31(n) = fract(sin(n * 1234567) * 43758.5453): a deterministic scalar
\* in [0, 1).  n is a whole number (a lattice index); the integer mix below
\* stands for the sine-based one.
HashMix(h) == (((h * h) % 9973) * 613 + h * 37 + 11) % SCALE

hash31(n) == HashMix(n % 9973)

\* a + (b - a) * t
Mix(a, b, t) == a + FMul(b - a, t)

\* f * f * (3 - 2 f)
Smooth(f) == FMul(FMul(f, f), 3 * SCALE - 2 * f)

\* x - x.floor()
Fract(a) == a - Floor(a) * SCALE

\* The lattice interpolation of noise, from the cell (ix, iy, iz) and the
\* smoothed fractions u, v, w.
NoiseCell(ix, iy, iz, u, v, w) ==
    LET n(i, j, k) == hash31((ix + i) + (iy + j) * 57 + (iz + k) * 113)
    IN Mix(Mix(Mix(n(0, 0, 0), n(1, 0, 0), u), Mix(n(0, 1, 0), n(1, 1, 0), u), v),
           Mix(Mix(n(0, 0, 1), n(1, 0, 1), u), Mix(n(0, 1, 1), n(1, 1, 1), u), v),
           w)

noise(pos) ==
    NoiseCell(Floor(pos.x), Floor(pos.y), Floor(pos.z),
              Smooth(Fract(pos.x)), Smooth(Fract(pos.y)), Smooth(Fract(pos.z)))

\* The loop `for _ in 0..octaves` from its i-th iteration on.
RECURSIVE FractalLoop(_, _, _, _, _, _, _)
FractalLoop(pos, octaves, i, value, amplitude, frequency, weight) ==
    IF i >= octaves THEN value
    ELSE FractalLoop(pos, octaves, i + 1,
                     value + FMul(FMul(noise(VScale(pos, frequency)), amplitude), weight),
                     FMul(amplitude, 500), FMul(frequency, 2000), FMul(weight, 700))

fractal_noise(pos, octaves) == FractalLoop(pos, octaves, 0, 0, SCALE, SCALE, SCALE)

simulate_lighting(normal, light_dir) ==
    Min(Max(Dot3(normal, light_dir), 100), SCALE)

\* pos turned about the vertical axis by the angle of cosine cos_a, sine sin_a
RotateY(pos, cos_a, sin_a) ==
    Vector3(FMul(pos.x, cos_a) - FMul(pos.z, sin_a),
            pos.y,
            FMul(pos.x, sin_a) + FMul(pos.z, cos_a))

rotate_planet_position(pos, time, speed) ==
    RotateY(pos, CosF(FMul(time, speed)), SinF(FMul(time, speed)))

LightDir == Vector3(SCALE, SCALE, SCALE)

\* let r = (x^2 + y^2 + z^2).sqrt().max(0.001); let lat = (rotated.z / r).asin();
Latitude(rotated) == AsinF(FDiv(rotated.z, Max(Length3(rotated), 1)))

\* ------------------------------------------------ planet colors (shaders.rs)
\* One crater of rocky_planet_color's `for c in &centers`, at distance d.
CraterBlend(color, d) ==
    IF d < 180
    THEN lerp(color, Vector3(200, 150, 100), FMul(Sq(SCALE - Min(FDiv(d, 180), SCALE)), 800))
    ELSE color

Distance3(a, b) == Length3(Vector3(a.x - b.x, a.y - b.y, a.z - b.z))

\* 0: Rocky
rocky_planet_color(pos, time) ==
    LET low == Vector3(550, 250, 150)
        high == Vector3(750, 450, 250)
        Base(elevation) ==
            IF elevation < 300 THEN low
            ELSE IF elevation > 700 THEN high
            ELSE lerp(low, high, FDiv(elevation - 300, 400))
        Craters(color, rotated) ==
            CraterBlend(
                CraterBlend(
                    CraterBlend(color, Distance3(rotated, Vector3(600, 200, 100))),
                    Distance3(rotated, Vector3(-500, -300, 200))),
                Distance3(rotated, Vector3(100, 800, -200)))
        Elevation(base_noise, detail) == FMul(base_noise + FMul(detail, 300), 500) + 500
        Surface(rotated) ==
            VScale(Craters(Base(Elevation(fractal_noise(rotated, 4),
                                          fractal_noise(VScale(rotated, 8 * SCALE), 2))),
                           rotated),
                   simulate_lighting(rotated, LightDir))
    IN Surface(rotate_planet_position(pos, time, 250))

\* 1: Gaseous
gaseous_planet_color(pos, time) ==
    LET Band1(color, lat) ==
            IF Abs(SinF(FMul(lat, 9 * SCALE) + FMul(time, 250))) > 750
            THEN lerp(color, Vector3(550, 350, 200), 500) ELSE color
        Band2(color, lat) ==
            IF Abs(CosF(FMul(lat, 14 * SCALE) + FMul(time, 350) + 700)) > 800
            THEN lerp(color, Vector3(400, 300, 600), 400) ELSE color
        StormBlend(color, storm_d) ==
            IF storm_d < 220
            THEN lerp(color, Vector3(880, 250, 180),
                      FMul(Sq(SCALE - FDiv(storm_d, 220)), 700))
            ELSE color
        StormDistance(storm_x, storm_y) == SqrtF(Sq(storm_x) + Sq(storm_y))
        Storm(color, rotated, storm_phase) ==
            StormBlend(color,
                       StormDistance(rotated.x + 350 + FMul(SinF(storm_phase), 50),
                                     rotated.y - 200 + FMul(CosF(storm_phase), 30)))
        Clouds(color, cloud) ==
            VAdd(color, VScale(Vector3(SCALE, SCALE, SCALE), Max(FMul(cloud, 300), 0)))
        Surface(rotated, lat) ==
            VScale(Clouds(Storm(Band2(Band1(Vector3(920, 820, 650), lat), lat),
                                rotated, FMul(time, 100)),
                          fractal_noise(Vector3(FMul(rotated.x, 25 * SCALE),
                                                FMul(rotated.y, 25 * SCALE),
                                                FMul(time, 120)), 4)),
                   Clamp(simulate_lighting(rotated, LightDir), 300, SCALE))
        Rotated(rotated) == Surface(rotated, Latitude(rotated))
    IN Rotated(rotate_planet_position(pos, time, 1300))

\* 2: Bioluminescent
biolum_planet_color(pos, time) ==
    LET ocean == Vector3(20, 50, 150)
        land == Vector3(100, 300, 100)
        glow_plants == Vector3(200, 800, 400)
        Base(elevation) == IF elevation < 400 THEN ocean ELSE land
        Glow(color, is_glowing) == IF is_glowing THEN lerp(color, glow_plants, 700) ELSE color
        Poles(color, lat) == IF Abs(lat) > 1100 THEN Vector3(850, 900, SCALE) ELSE color
        Night(final_color, is_day, is_glowing) ==
            IF ~is_day /\ is_glowing THEN VAdd(final_color, VScale(glow_plants, 300))
            ELSE final_color
        Lit(color, dot, is_glowing) ==
            Night(VScale(color, IF dot > 0 THEN Max(dot, 200) ELSE 100), dot > 0, is_glowing)
        Flora(rotated, elevation, is_glowing) ==
            Lit(Poles(Glow(Base(elevation), is_glowing), Latitude(rotated)),
                Dot3(rotated, LightDir), is_glowing)
        Terrain(rotated, elevation) ==
            Flora(rotated, elevation,
                  fractal_noise(VScale(rotated, 6 * SCALE), 3) > 600 /\ elevation > 500)
        Rotated(rotated) == Terrain(rotated, FMul(fractal_noise(rotated, 4), 500) + 500)
    IN Rotated(rotate_planet_position(pos, time, 600))

\* 3: Ringed
ringed_planet_color(pos, time) ==
    LET Bands(lat) == Abs(SinF(FMul(lat, 7 * SCALE) + FMul(time, 80)))
        Surface(rotated) ==
            VScale(lerp(Vector3(750, 650, 500), Vector3(850, 750, 400),
                        FMul(Bands(Latitude(rotated)), 350)),
                   simulate_lighting(rotated, LightDir))
    IN Surface(rotate_planet_position(pos, time, 500))

\* 4: Ice
ice_planet_color(pos, time) ==
    LET Base(noise_val, fractures) ==
            IF noise_val < 300 THEN Vector3(600, 800, 950)
            ELSE IF fractures > 700 THEN Vector3(900, 980, SCALE)
            ELSE Vector3(850, 950, SCALE)
        Refract(color, dot) ==
            VScale(lerp(color, Vector3(SCALE, SCALE, SCALE),
                        FMul(Cube(SCALE - Abs(dot)), 300)),
                   Max(dot, 200))
        Surface(rotated) ==
            Refract(Base(fractal_noise(rotated, 5),
                         fractal_noise(Vector3(FMul(rotated.x, 10 * SCALE),
                                               FMul(rotated.y, 10 * SCALE),
                                               FMul(rotated.z, 10 * SCALE) + time), 3)),
                    Dot3(rotated, LightDir))
    IN Surface(rotate_planet_position(pos, time, 300))

\* color.x.max(0.0).min(1.0), per channel
Clamp01(color) ==
    Vector3(Min(Max(color.x, 0), SCALE), Min(Max(color.y, 0), SCALE),
            Min(Max(color.z, 0), SCALE))

Uniforms(model_matrix, view_matrix, projection_matrix, viewport_matrix, time, dt, planet_type, render_type) ==
    [model_matrix |-> model_matrix, view_matrix |-> view_matrix,
     projection_matrix |-> projection_matrix, viewport_matrix |-> viewport_matrix,
     time |-> time, dt |-> dt, planet_type |-> planet_type,
     render_type |-> render_type]

\* A faulty dispatch: the default arm is black instead of gray.
PlanetColorBlackDefault(planet_type, pos, time) ==
    CASE planet_type = 0 -> rocky_planet_color(pos, time)
      [] planet_type = 1 -> gaseous_planet_color(pos, time)
      [] planet_type = 2 -> biolum_planet_color(pos, time)
      [] planet_type = 3 -> ringed_planet_color(pos, time)
      [] planet_type = 4 -> ice_planet_color(pos, time)
      [] OTHER -> Vector3(0, 0, 0)

\* The `match planet_type` of fragment_shader.
PlanetColor(planet_type, pos, time) ==
    CASE planet_type = 0 -> rocky_planet_color(pos, time)
      [] planet_type = 1 -> gaseous_planet_color(pos, time)
      [] planet_type = 2 -> biolum_planet_color(pos, time)
      [] planet_type = 3 -> ringed_planet_color(pos, time)
      [] planet_type = 4 -> ice_planet_color(pos, time)
      [] OTHER -> Vector3(500, 500, 500)

\* The color before fragment_shader's final clamp.
UnclampedColor(fragment, uniforms) ==
    PlanetColor(uniforms.planet_type, fragment.world_position, uniforms.time)

\* A faulty fragment_shader: the final clamp is missing.
fragment_shader_unclamped(fragment, uniforms) == UnclampedColor(fragment, uniforms)

fragment_shader(fragment, uniforms) == Clamp01(UnclampedColor(fragment, uniforms))

\* ---------------------------------------------------------------- matrices
\* A Matrix is four rows of four f32.
IdentityMatrix ==
    << <<SCALE, 0, 0, 0>>, <<0, SCALE, 0, 0>>, <<0, 0, SCALE, 0>>, <<0, 0, 0, SCALE>> >>

RowDot(r, v) == FMul(r[1], v.x) + FMul(r[2], v.y) + FMul(r[3], v.z) + FMul(r[4], v.w)

multiply_matrix_vector4(m, v) ==
    Vector4(RowDot(m[1], v), RowDot(m[2], v), RowDot(m[3], v), RowDot(m[4], v))

\* create_model_matrix(translation = 0, scale = 1, rotation = 0)
create_model_matrix == IdentityMatrix

\* The view matrix of a camera at (0, 0, eye_z) looking at the origin, up = +y.
ViewMatrix(eye_z) ==
    << <<SCALE, 0, 0, 0>>, <<0, SCALE, 0, 0>>, <<0, 0, SCALE, -eye_z>>, <<0, 0, 0, SCALE>> >>

\* create_projection_matrix(PI / 3, width / height, 0.1, 100.0):
\* 1 / tan(PI / 6) = 1.732, (far + near) / (near - far) = -1.002,
\* 2 far near / (near - far) = -0.2.
create_projection_matrix(width, height) ==
    LET aspect == FDiv(width * SCALE, height * SCALE)
    IN << <<FDiv(1732, aspect), 0, 0, 0>>, <<0, 1732, 0, 0>>,
          <<0, 0, -1002, -200>>, <<0, 0, -SCALE, 0>> >>

create_viewport_matrix(x, y, width, height) ==
    LET half_width == width \div 2
        half_height == height \div 2
    IN << <<half_width, 0, 0, x + half_width>>, <<0, -half_height, 0, y + half_height>>,
          <<0, 0, SCALE, 0>>, <<0, 0, 0, SCALE>> >>

\* ------------------------------------------------ vertex pipeline (shaders.rs)
Vertex(position, normal, tex_coords, color, transformed_position, transformed_normal) ==
    [position |-> position, normal |-> normal, tex_coords |-> tex_coords,
     color |-> color, transformed_position |-> transformed_position,
     transformed_normal |-> transformed_normal]

\* render_type 1: the vertex moved onto the ring
RingPosition(p, angle, base_radius) ==
    Vector4(FMul(base_radius, CosF(angle)), FMul(p.y, 50),
            FMul(base_radius, SinF(angle)), SCALE)

\* render_type 2: the vertex shrunk and moved onto the moon's orbit
MoonPosition(p, moon_orbit_time) ==
    Vector4(FMul(2800, CosF(moon_orbit_time)) + FMul(p.x, 250),
            FMul(SinF(FMul(moon_orbit_time, 3 * SCALE)), 200) + FMul(p.y, 250),
            FMul(2800, SinF(moon_orbit_time)) + FMul(p.z, 250), SCALE)

\* The `match uniforms.render_type` of vertex_shader: position_vec4 after it.
RemapPosition(vertex, uniforms) ==
    CASE uniforms.render_type = 1 ->
            RingPosition(vertex.position,
                         FRem(Atan2F(vertex.position.x, vertex.position.y)
                                + FMul(uniforms.time, 200), 2 * PI),
                         1800 + FMul(SinF(FMul(vertex.position.z, 300)), 200))
      [] uniforms.render_type = 2 ->
            MoonPosition(vertex.position, FMul(uniforms.time, 400))
      [] OTHER ->
            Vector4(vertex.position.x, vertex.position.y, vertex.position.z, SCALE)

\* model, view and projection applied in that order
ClipPosition(vertex, uniforms) ==
    multiply_matrix_vector4(uniforms.projection_matrix,
        multiply_matrix_vector4(uniforms.view_matrix,
            multiply_matrix_vector4(uniforms.model_matrix,
                                    RemapPosition(vertex, uniforms))))

\* A faulty divide: only a positive w divides.
PerspectiveDividePositiveW(clip_position) ==
    IF clip_position.w > 0
    THEN Vector3(FDiv(clip_position.x, clip_position.w),
                 FDiv(clip_position.y, clip_position.w),
                 FDiv(clip_position.z, clip_position.w))
    ELSE Vector3(clip_position.x, clip_position.y, clip_position.z)

\* let ndc = if clip_position.w != 0.0 { clip / w } else { clip }
PerspectiveDivide(clip_position) ==
    IF clip_position.w # 0
    THEN Vector3(FDiv(clip_position.x, clip_position.w),
                 FDiv(clip_position.y, clip_position.w),
                 FDiv(clip_position.z, clip_position.w))
    ELSE Vector3(clip_position.x, clip_position.y, clip_position.z)

\* n / len, n itself when len is not positive
NormalizeOr(n, len) ==
    IF len > 0 THEN Vector3(FDiv(n.x, len), FDiv(n.y, len), FDiv(n.z, len)) ELSE n

Xyz(v) == Vector3(v.x, v.y, v.z)

NormalizeVec(n) == NormalizeOr(n, Length3(n))

transform_normal(normal, model_matrix) ==
    NormalizeVec(Xyz(multiply_matrix_vector4(model_matrix,
                                             Vector4(normal.x, normal.y, normal.z, 0))))

\* screen_position = viewport_matrix * (ndc, 1)
ScreenPosition(ndc, uniforms) ==
    multiply_matrix_vector4(uniforms.viewport_matrix, Vector4(ndc.x, ndc.y, ndc.z, SCALE))

vertex_shader(vertex, uniforms) ==
    Vertex(vertex.position, vertex.normal, vertex.tex_coords, vertex.color,
           Xyz(ScreenPosition(PerspectiveDivide(ClipPosition(vertex, uniforms)), uniforms)),
           transform_normal(vertex.normal, uniforms.model_matrix))

\* `for vertex in vertex_array { transformed_vertices.push(vertex_shader(..)) }`
TransformVertices(vertex_array, uniforms) ==
    [i \in 1..Len(vertex_array) |-> vertex_shader(vertex_array[i], uniforms)]

\* ------------------------------------------------------- triangle assembly
\* transformed_vertices[i] of a Vec: an index past the end panics.
OutOfRange == [panic |-> "index out of bounds"]

VecIndex(vec, i) == IF i >= 0 /\ i < Len(vec) THEN vec[i + 1] ELSE OutOfRange

\* A faulty loop: the test is `i + 2 <= len`.
RECURSIVE TriangleLoopInclusive(_, _)
TriangleLoopInclusive(transformed_vertices, i) ==
    IF i >= Len(transformed_vertices) THEN <<>>
    ELSE (IF i + 2 <= Len(transformed_vertices)
          THEN << <<VecIndex(transformed_vertices, i),
                    VecIndex(transformed_vertices, i + 1),
                    VecIndex(transformed_vertices, i + 2)>> >>
          ELSE <<>>)
         \o TriangleLoopInclusive(transformed_vertices, i + 3)

\* `for i in (0..len).step_by(3) { if i + 2 < len { triangles.push([..]) } }`
\* from index i on.
RECURSIVE TriangleLoop(_, _)
TriangleLoop(transformed_vertices, i) ==
    IF i >= Len(transformed_vertices) THEN <<>>
    ELSE (IF i + 2 < Len(transformed_vertices)
          THEN << <<VecIndex(transformed_vertices, i),
                    VecIndex(transformed_vertices, i + 1),
                    VecIndex(transformed_vertices, i + 2)>> >>
          ELSE <<>>)
         \o TriangleLoop(transformed_vertices, i + 3)

\* the triangles of render_planet, render_rings and render_moon
planet_triangles(vertex_array, uniforms) ==
    TriangleLoop(TransformVertices(vertex_array, [uniforms EXCEPT !.render_type = 0]), 0)

ring_triangles(vertex_array, uniforms) ==
    TriangleLoop(TransformVertices(vertex_array, [uniforms EXCEPT !.render_type = 1]), 0)

moon_triangles(vertex_array, uniforms) ==
    TriangleLoop(TransformVertices(vertex_array, [uniforms EXCEPT !.render_type = 2]), 0)

\* ------------------------------------------------- fragments (fragment.rs)
Fragment_new(x, y, color, depth, world_position) ==
    [position |-> Vector3(x, y, depth), color |-> color, depth |-> depth,
     world_position |-> world_position]

\* -------------------------------------------------------------- rasterizer
\* triangle(v1, v2, v3, light): the bounding box of the three screen
\* positions, one candidate per integer pixel center in it, barycentric
\* weights from the edge functions over the signed area, depth and position
\* interpolated with the weights.
Ceil(a) == -((-a) \div SCALE)

EdgeFn(a, b, p) == FMul(p.x - a.x, b.y - a.y) - FMul(p.y - a.y, b.x - a.x)

\* the three edge functions over the signed area
Weights(e1, e2, e3, area) == <<FDiv(e1, area), FDiv(e2, area), FDiv(e3, area)>>

barycentric_coordinates(p, a, b, c) ==
    Weights(EdgeFn(b, c, p), EdgeFn(c, a, p), EdgeFn(a, b, p), EdgeFn(a, b, c))

\* A faulty inside test: one non-negative weight is enough.
InsideTriangleAnyWeight(w) == w[1] >= 0 \/ w[2] >= 0 \/ w[3] >= 0

\* all three weights non-negative, or all three non-positive
InsideTriangle(w) ==
    \/ (w[1] >= 0 /\ w[2] >= 0 /\ w[3] >= 0)
    \/ (w[1] <= 0 /\ w[2] <= 0 /\ w[3] <= 0)

Interpolate(w, p1, p2, p3) ==
    Vector3(FMul(w[1], p1.x) + FMul(w[2], p2.x) + FMul(w[3], p3.x),
            FMul(w[1], p1.y) + FMul(w[2], p2.y) + FMul(w[3], p3.y),
            FMul(w[1], p1.z) + FMul(w[2], p2.z) + FMul(w[3], p3.z))

\* The fragment of the pixel center p with weights w.
EmitFragment(p, w, v1, v2, v3) ==
    Fragment_new(p.x, p.y, Interpolate(w, v1.color, v2.color, v3.color),
                 FMul(w[1], v1.transformed_position.z)
                   + FMul(w[2], v2.transformed_position.z)
                   + FMul(w[3], v3.transformed_position.z),
                 Interpolate(w, v1.position, v2.position, v3.position))

\* The pixel centers of the box [min_x, max_x] x [min_y, max_y], row by row.
BoxCenters(min_x, min_y, max_x, max_y) ==
    [k \in 1..((max_x - min_x + 1) * (max_y - min_y + 1)) |->
        Vector3((min_x + ((k - 1) % (max_x - min_x + 1))) * SCALE,
                (min_y + ((k - 1) \div (max_x - min_x + 1))) * SCALE, 0)]

\* The fragments of the covered ones of the pixel centers.
CoveredFragments(centers, v1, v2, v3) ==
    LET a == v1.transformed_position
        b == v2.transformed_position
        c == v3.transformed_position
        Covered(p) == InsideTriangle(barycentric_coordinates(p, a, b, c))
        Emit(p) == EmitFragment(p, barycentric_coordinates(p, a, b, c), v1, v2, v3)
        EmitAll(covered) == [i \in 1..Len(covered) |-> Emit(covered[i])]
    IN EmitAll(SelectSeq(centers, Covered))

triangle(v1, v2, v3, light) ==
    LET a == v1.transformed_position
        b == v2.transformed_position
        c == v3.transformed_position
    IN IF EdgeFn(a, b, c) = 0 THEN <<>>
       ELSE CoveredFragments(BoxCenters(Floor(Min(a.x, Min(b.x, c.x))),
                                        Floor(Min(a.y, Min(b.y, c.y))),
                                        Ceil(Max(a.x, Max(b.x, c.x))),
                                        Ceil(Max(a.y, Max(b.y, c.y)))),
                             v1, v2, v3)

RECURSIVE Flatten(_, _)
Flatten(seqs, i) == IF i > Len(seqs) THEN <<>> ELSE seqs[i] \o Flatten(seqs, i + 1)

\* `for tri in &triangles { fragments.extend(triangle(..)) }`
Rasterize(triangles, light) ==
    Flatten([k \in 1..Len(triangles) |->
                triangle(triangles[k][1], triangles[k][2], triangles[k][3], light)], 1)

\* ------------------------------------------------------------- framebuffer
\* The depth a cleared pixel holds: farther than any depth written.
FarDepth == 1000000

BackgroundColor == Vector3(118, 118, 118)

Pixels(width, height) == (0..(width - 1)) \X (0..(height - 1))

clear(framebuffer) ==
    [framebuffer EXCEPT
        !.color = [p \in Pixels(framebuffer.width, framebuffer.height) |->
                      framebuffer.background_color],
        !.depth = [p \in Pixels(framebuffer.width, framebuffer.height) |-> FarDepth]]

Framebuffer_new(width, height) ==
    [width |-> width, height |-> height,
     background_color |-> Vector3(0, 0, 0),
     color |-> [p \in Pixels(width, height) |-> Vector3(0, 0, 0)],
     depth |-> [p \in Pixels(width, height) |-> FarDepth]]

set_background_color(framebuffer, color) ==
    [framebuffer EXCEPT !.background_color = color]

\* A faulty point: the depth test is `<=`, so an equal depth overwrites.
point_equal_depth_wins(framebuffer, x, y, color, depth) ==
    IF /\ x >= 0 /\ x < framebuffer.width
       /\ y >= 0 /\ y < framebuffer.height
       /\ depth <= framebuffer.depth[<<x, y>>]
    THEN [framebuffer EXCEPT !.color[<<x, y>>] = color, !.depth[<<x, y>>] = depth]
    ELSE framebuffer

point(framebuffer, x, y, color, depth) ==
    IF /\ x >= 0 /\ x < framebuffer.width
       /\ y >= 0 /\ y < framebuffer.height
       /\ depth < framebuffer.depth[<<x, y>>]
    THEN [framebuffer EXCEPT !.color[<<x, y>>] = color, !.depth[<<x, y>>] = depth]
    ELSE framebuffer

\* ------------------------------------------------------------ render passes
\* A faulty conversion: the sign is dropped with the fraction.
AsI32Unsigned(f) == Abs(Quot(f, SCALE))

\* f32 as i32: the fraction is dropped, toward zero.
AsI32(f) == Quot(f, SCALE)

\* One call framebuffer.point(position.x as i32, position.y as i32, color,
\* depth), with the pass and the fragment it came from.
PointCall(pass, fragment, final_color) ==
    [pass |-> pass, x |-> AsI32(fragment.position.x), y |-> AsI32(fragment.position.y),
     color |-> final_color, depth |-> fragment.depth, fragment |-> fragment]

\* The ring color at a planar radius, lit from above.
RingColor(radius, time) ==
    VScale(lerp(Vector3(880, 820, 650), Vector3(650, 580, 400),
                FMul(Abs(SinF(FMul(radius, 40 * SCALE) + FMul(time, 150))), 500)),
           simulate_lighting(Vector3(0, SCALE, 0), LightDir))

\* let radius = (dx * dx + dz * dz).sqrt();
PlanarRadius(world_position) == SqrtF(Sq(world_position.x) + Sq(world_position.z))

\* A faulty filter: the two boundary radii are skipped too.
RingSkipsBoundaries(radius) == radius <= 1600 \/ radius >= 2400

\* if radius < 1.6 || radius > 2.4 { continue; }
RingSkips(radius) == radius < 1600 \/ radius > 2400

MoonColor(crater_noise) ==
    IF crater_noise > 600 THEN Vector3(500, 480, 450) ELSE Vector3(650, 620, 600)

\* The body of render_planet's `for fragment in fragments`: its point call.
planet_fragment(fragment, uniforms) ==
    PointCall("body", fragment, fragment_shader(fragment, uniforms))

\* The body of render_rings' `for fragment in fragments` past the `continue`.
ring_fragment(fragment, uniforms) ==
    PointCall("ring", fragment,
              RingColor(PlanarRadius(fragment.world_position), uniforms.time))

\* The body of render_moon's `for fragment in fragments`.
moon_fragment(fragment, uniforms) ==
    PointCall("moon", fragment,
              VScale(MoonColor(fractal_noise(VScale(fragment.world_position, 8 * SCALE), 2)),
                     simulate_lighting(fragment.world_position, LightDir)))

\* `for fragment in fragments { .. }` of the three passes: the point calls
PlanetLoop(fragments, uniforms) ==
    [k \in 1..Len(fragments) |-> planet_fragment(fragments[k], uniforms)]

RingKept(fragment) == ~RingSkips(PlanarRadius(fragment.world_position))

RingLoopKept(kept, uniforms) ==
    [k \in 1..Len(kept) |-> ring_fragment(kept[k], uniforms)]

RingLoop(fragments, uniforms) == RingLoopKept(SelectSeq(fragments, RingKept), uniforms)

MoonLoop(fragments, uniforms) ==
    [k \in 1..Len(fragments) |-> moon_fragment(fragments[k], uniforms)]

\* The point calls of one pass, in order.
planet_calls(uniforms, vertex_array, light) ==
    PlanetLoop(Rasterize(planet_triangles(vertex_array, uniforms), light), uniforms)

ring_calls(uniforms, vertex_array, light) ==
    RingLoop(Rasterize(ring_triangles(vertex_array, uniforms), light), uniforms)

moon_calls(uniforms, vertex_array, light) ==
    MoonLoop(Rasterize(moon_triangles(vertex_array, uniforms), light), uniforms)

\* The framebuffer after the calls cs[lo], .., cs[hi], made in that order: the
\* first half of them, then the second half.  A framebuffer without pixels
\* takes no write.
RECURSIVE ApplyCalls(_, _, _, _)
ApplyCalls(framebuffer, cs, lo, hi) ==
    IF lo > hi \/ framebuffer.width = 0 \/ framebuffer.height = 0 THEN framebuffer
    ELSE IF lo = hi
         THEN point(framebuffer, cs[lo].x, cs[lo].y, cs[lo].color, cs[lo].depth)
         ELSE ApplyCalls(ApplyCalls(framebuffer, cs, lo, (lo + hi) \div 2),
                         cs, ((lo + hi) \div 2) + 1, hi)

\* ------------------------------------------------------------------ meshes
\* The flat vertex array of an octahedron of the given radius: eight faces,
\* three vertices each; the normal of a vertex is its direction.
MeshVertex(position, radius) ==
    Vertex(position,
           Vector3(FDiv(position.x, radius), FDiv(position.y, radius),
                   FDiv(position.z, radius)),
           <<0, 0>>, Vector3(SCALE, SCALE, SCALE), Vector3(0, 0, 0), Vector3(0, 0, 0))

FaceSigns ==
    << <<1, 1, 1>>, <<-1, 1, 1>>, <<1, -1, 1>>, <<-1, -1, 1>>,
       <<1, 1, -1>>, <<-1, 1, -1>>, <<1, -1, -1>>, <<-1, -1, -1>> >>

SphereMesh(radius) ==
    [i \in 1..24 |->
        LET s == FaceSigns[((i - 1) \div 3) + 1]
            corner == (i - 1) % 3
        IN MeshVertex(CASE corner = 0 -> Vector3(s[1] * radius, 0, 0)
                        [] corner = 1 -> Vector3(0, s[2] * radius, 0)
                        [] OTHER -> Vector3(0, 0, s[3] * radius),
                      radius)]

\* sphere.obj is a unit sphere; a mesh of twice the size is the other input.
UnitSphere == SphereMesh(SCALE)

Meshes == {UnitSphere, SphereMesh(2 * SCALE)}

Light_new(position) == [position |-> position]

\* ------------------------------------------------------------------- state
VARIABLES
    pc,            \* where main is: "loop", "render_planet", "render_rings",
                   \* "render_moon", "swap_buffers", "done"
    should_close,  \* what window.window_should_close() returns
    time,          \* let mut time
    dt,            \* the last window.get_frame_time()
    planet_type,   \* let mut planet_type
    framebuffer,   \* let mut framebuffer
    vertex_array,  \* obj.get_vertex_array()
    calls,         \* the framebuffer.point calls since the last clear()
    frames,        \* frames started
    presents,      \* swap_buffers calls
    fn,            \* the function a harness step applied
    args,          \* its arguments
    ret,           \* its result
    keys_pressed,  \* the selection keys window.is_key_pressed reports this frame
    ops            \* what main has called on the framebuffer in the current frame

vars == <<pc, should_close, time, dt, planet_type, framebuffer, vertex_array,
          calls, frames, presents, fn, args, ret, keys_pressed, ops>>



\* ---------------------------------------------------------- main (main.rs)
light == Light_new(Vector3(5 * SCALE, 5 * SCALE, 5 * SCALE))

\* The Uniforms main builds each frame.
planet_uniforms ==
    Uniforms(create_model_matrix, ViewMatrix(8 * SCALE),
             create_projection_matrix(FbWidth, FbHeight),
             create_viewport_matrix(0, 0, FbWidth * SCALE, FbHeight * SCALE),
             time, dt, planet_type, 0)

\* window.get_frame_time(), in the model one of two frame times
FrameTimes == {500, 1000}

\* A faulty selection: key k selects planet type k instead of k - 1.
KeySelectOffByOne(keys, current) ==
    LET a == IF 1 \in keys THEN 1 ELSE current
        b == IF 2 \in keys THEN 2 ELSE a
        c == IF 3 \in keys THEN 3 ELSE b
        d == IF 4 \in keys THEN 4 ELSE c
    IN IF 5 \in keys THEN 5 ELSE d

\* planet_type after the five `if window.is_key_pressed(..)` in source order
KeySelect(keys, current) ==
    LET a == IF 1 \in keys THEN 0 ELSE current
        b == IF 2 \in keys THEN 1 ELSE a
        c == IF 3 \in keys THEN 2 ELSE b
        d == IF 4 \in keys THEN 3 ELSE c
    IN IF 5 \in keys THEN 4 ELSE d

Init ==
    /\ pc = "loop"
    /\ should_close = FALSE
    /\ time = 0
    /\ dt = 0
    /\ planet_type = 0
    /\ framebuffer = set_background_color(Framebuffer_new(FbWidth, FbHeight),
                                          BackgroundColor)
    /\ vertex_array \in Meshes
    /\ calls = <<>>
    /\ frames = 0
    /\ presents = 0
    /\ fn = "none"
    /\ args = <<>>
    /\ ret = <<>>
    /\ keys_pressed = {}
    /\ ops = <<>>

\* The user closes the window (or presses the exit key); the loop sees it at
\* its next `while !window.window_should_close()`.
CloseRequested ==
    /\ pc # "done"
    /\ ~should_close
    /\ should_close' = TRUE
    /\ UNCHANGED <<pc, time, dt, planet_type, framebuffer, vertex_array, calls,
                   frames, presents, fn, args, ret, keys_pressed, ops>>

\* A faulty exit: the close signal ends main wherever it is.
ExitAnywhere ==
    /\ pc # "done"
    /\ should_close
    /\ pc' = "done"
    /\ UNCHANGED <<should_close, time, dt, planet_type, framebuffer, vertex_array,
                   calls, frames, presents, fn, args, ret, keys_pressed, ops>>

\* `while !window.window_should_close()` is false: main returns.
ExitLoop ==
    /\ pc = "loop"
    /\ should_close
    /\ pc' = "done"
    /\ UNCHANGED <<should_close, time, dt, planet_type, framebuffer, vertex_array,
                   calls, frames, presents, fn, args, ret, keys_pressed, ops>>

\* The loop test is true: frame time, keys, camera input, clear, uniforms.
BeginFrame ==
    /\ pc = "loop"
    /\ ~should_close
    /\ frames < MaxFrames
    /\ \E d \in FrameTimes, pressed \in SUBSET (1..5) :
          /\ dt' = d
          /\ time' = time + d
          /\ keys_pressed' = pressed
          /\ planet_type' = KeySelect(pressed, planet_type)
    /\ framebuffer' = clear(framebuffer)
    /\ calls' = <<>>
    /\ ops' = <<"clear">>
    /\ frames' = frames + 1
    /\ pc' = "render_planet"
    /\ UNCHANGED <<should_close, vertex_array, presents, fn, args, ret>>

\* render_planet(&mut framebuffer, &planet_uniforms, &vertex_array, &light)
RenderPlanet ==
    /\ pc = "render_planet"
    /\ calls' = calls \o planet_calls(planet_uniforms, vertex_array, light)
    /\ framebuffer' = ApplyCalls(framebuffer, calls', Len(calls) + 1, Len(calls'))
    /\ ops' = Append(ops, "render_planet")
    /\ pc' = "render_rings"
    /\ UNCHANGED <<should_close, time, dt, planet_type, vertex_array, frames,
                   presents, fn, args, ret, keys_pressed>>

\* A faulty ring pass: render_rings(..) without the `if planet_type == 3`.
RenderRingsAnyType ==
    /\ pc = "render_rings"
    /\ calls' = calls \o ring_calls(planet_uniforms, vertex_array, light)
    /\ framebuffer' = ApplyCalls(framebuffer, calls', Len(calls) + 1, Len(calls'))
    /\ ops' = Append(ops, "render_rings")
    /\ pc' = "render_moon"
    /\ UNCHANGED <<should_close, time, dt, planet_type, vertex_array, frames,
                   presents, fn, args, ret, keys_pressed>>

\* if planet_type == 3 { render_rings(..) }
RenderRings ==
    /\ pc = "render_rings"
    /\ calls' = calls \o (IF planet_type = 3
                          THEN ring_calls(planet_uniforms, vertex_array, light)
                          ELSE <<>>)
    /\ framebuffer' = ApplyCalls(framebuffer, calls', Len(calls) + 1, Len(calls'))
    /\ ops' = IF planet_type = 3 THEN Append(ops, "render_rings") ELSE ops
    /\ pc' = "render_moon"
    /\ UNCHANGED <<should_close, time, dt, planet_type, vertex_array, frames,
                   presents, fn, args, ret, keys_pressed>>

\* if planet_type == 0 { render_moon(..) }
RenderMoon ==
    /\ pc = "render_moon"
    /\ calls' = calls \o (IF planet_type = 0
                          THEN moon_calls(planet_uniforms, vertex_array, light)
                          ELSE <<>>)
    /\ framebuffer' = ApplyCalls(framebuffer, calls', Len(calls) + 1, Len(calls'))
    /\ ops' = IF planet_type = 0 THEN Append(ops, "render_moon") ELSE ops
    /\ pc' = "swap_buffers"
    /\ UNCHANGED <<should_close, time, dt, planet_type, vertex_array, frames,
                   presents, fn, args, ret, keys_pressed>>

\* framebuffer.swap_buffers(..); thread::sleep(16 ms); back to the loop test
SwapBuffers ==
    /\ pc = "swap_buffers"
    /\ presents' = presents + 1
    /\ ops' = Append(ops, "swap_buffers")
    /\ pc' = "loop"
    /\ UNCHANGED <<should_close, time, dt, planet_type, framebuffer, vertex_array,
                   calls, frames, fn, args, ret, keys_pressed>>

Next ==
    \/ CloseRequested
    \/ ExitLoop
    \/ BeginFrame
    \/ RenderPlanet
    \/ RenderRings
    \/ RenderMoon
    \/ SwapBuffers

Spec == Init /\ [][Next]_vars

\* C4: with the unit-sphere mesh, the identity model matrix and planet_type 3
\* the ring pass writes at least one fragment to the framebuffer.
C4_RingPassWrites ==
    (pc = "render_moon" /\ planet_type = 3 /\ vertex_array = UnitSphere) =>
        \E i \in 1..Len(calls) : calls[i].pass = "ring"

MidFrame == {"render_planet", "render_rings", "render_moon", "swap_buffers"}

\* the step after each point of a frame
NextInFrame(at) ==
    CASE at = "render_planet" -> "render_rings"
      [] at = "render_rings" -> "render_moon"
      [] at = "render_moon" -> "swap_buffers"
      [] OTHER -> "loop"

\* A step inside a frame goes to the frame's next step; main returns only from
\* the loop test with the close signal set; with the signal set at the loop
\* test no frame starts.  (Every frame started has been presented whenever main
\* is at the loop test or has returned: C10's state part.)
C10_Step ==
    /\ (pc \in MidFrame /\ pc' # pc) => pc' = NextInFrame(pc)
    /\ (pc # "done" /\ pc' = "done") => (pc = "loop" /\ should_close)
    /\ (pc = "loop" /\ should_close) => (frames' = frames /\ pc' \in {"loop", "done"})

\* C10: the close signal is checked only at a frame boundary: a frame that has
\* started runs to completion (clear, body pass, optional ring and moon pass,
\* present) with no exit in between, and the loop ends at the first frame
\* boundary at which the signal is set, without starting another frame.
C10_CloseAtFrameBoundary ==
    /\ [][C10_Step]_vars
    /\ [](pc \in MidFrame => presents + 1 = frames)
    /\ [](pc \in {"loop", "done"} => presents = frames)

\* The window was closed in the middle of a frame, the frame was presented
\* and main returned.
C10_Witness ==
    /\ pc = "done"
    /\ should_close
    /\ frames = 2
    /\ presents = 2
    /\ calls # <<>>

\* What a frame with planet type t calls before it presents the buffer.
PassesOf(t) ==
    <<"clear", "render_planet">>
        \o (IF t = 3 THEN <<"render_rings">> ELSE <<>>)
        \o (IF t = 0 THEN <<"render_moon">> ELSE <<>>)

\* The calls of the current frame at each point of main.
C11_OpsAt ==
    /\ pc = "render_planet" => ops = <<"clear">>
    /\ pc = "render_rings" => ops = <<"clear", "render_planet">>
    /\ pc = "render_moon" =>
          ops = <<"clear", "render_planet">>
                    \o (IF planet_type = 3 THEN <<"render_rings">> ELSE <<>>)
    /\ pc = "swap_buffers" => ops = PassesOf(planet_type)
    /\ (pc \in {"loop", "done"} /\ frames > 0) =>
          ops = Append(PassesOf(planet_type), "swap_buffers")
    /\ ~(\E i, j \in 1..Len(ops) : ops[i] = "render_rings" /\ ops[j] = "render_moon")

\* the pass whose point calls a call of main makes
PassOfOp(op) ==
    CASE op = "render_planet" -> "body"
      [] op = "render_rings" -> "ring"
      [] op = "render_moon" -> "moon"
      [] OTHER -> "none"

\* What each call does to the framebuffer: clear() resets every pixel and is
\* the frame's first call; a pass only adds its own point calls and never
\* raises a stored depth; a pass that is skipped and the present change
\* nothing.
C11_OpsStep ==
    /\ (ops' # ops /\ ops'[Len(ops')] = "clear") =>
          /\ ops' = <<"clear">>
          /\ calls' = <<>>
          /\ \A q \in Pixels(framebuffer.width, framebuffer.height) :
                /\ framebuffer'.depth[q] = FarDepth
                /\ framebuffer'.color[q] = framebuffer.background_color
    /\ (pc \in MidFrame /\ pc' # pc) =>
          /\ Len(calls') >= Len(calls)
          /\ SubSeq(calls', 1, Len(calls)) = calls
          /\ \A q \in Pixels(framebuffer.width, framebuffer.height) :
                framebuffer'.depth[q] <= framebuffer.depth[q]
          /\ IF ops' = ops \/ pc = "swap_buffers"
             THEN framebuffer' = framebuffer /\ calls' = calls
             ELSE /\ ops' = Append(ops, ops'[Len(ops')])
                  /\ \A i \in (Len(calls) + 1)..Len(calls') :
                        calls'[i].pass = PassOfOp(ops'[Len(ops')])

\* C11: in every frame the framebuffer is cleared exactly once, before any
\* pass; then the body pass runs unconditionally, the ring pass iff
\* planet_type = 3, the moon pass iff planet_type = 0, and the buffer is
\* presented exactly once; the framebuffer is never cleared between the passes
\* of a frame, and the ring and the moon pass never both run in one frame.
C11_FrameCallOrder == []C11_OpsAt /\ [][C11_OpsStep]_vars

\* The second frame, with planet type 3, ran the body and the ring pass, both
\* with point calls, and was presented.
C11_Witness ==
    /\ pc = "loop"
    /\ frames = 2
    /\ ops = <<"clear", "render_planet", "render_rings", "swap_buffers">>
    /\ \E i, j \in 1..Len(calls) : calls[i].pass = "body" /\ calls[j].pass = "ring"

\* The selected planet type is one of the five, is 0 until the first frame, and
\* a frame that is about to present has run the ring and the moon pass exactly
\* for the types 3 and 0 it still has.
C12_PlanetTypeAt ==
    /\ planet_type \in 0..4
    /\ frames = 0 => planet_type = 0
    /\ pc = "swap_buffers" =>
          /\ (\E i \in 1..Len(ops) : ops[i] = "render_rings") <=> planet_type = 3
          /\ (\E i \in 1..Len(ops) : ops[i] = "render_moon") <=> planet_type = 0

\* planet_type changes only in the step that starts a frame, and then to the
\* type of a key that is pressed (key k alone selects k - 1); without a key it
\* keeps its value; the body pass shades with the type the frame started with.
C12_PlanetTypeStep ==
    /\ planet_type' # planet_type =>
          /\ pc = "loop" /\ pc' = "render_planet"
          /\ planet_type' + 1 \in keys_pressed'
    /\ (pc = "loop" /\ pc' = "render_planet") =>
          /\ keys_pressed' = {} => planet_type' = planet_type
          /\ keys_pressed' # {} => planet_type' + 1 \in keys_pressed'
          /\ \A k \in 1..5 : keys_pressed' = {k} => planet_type' = k - 1
    /\ (pc = "render_planet" /\ pc' = "render_rings") =>
          \A i \in 1..Len(calls') :
              calls'[i].color = fragment_shader(calls'[i].fragment, planet_uniforms')

\* C12: in every reachable state of the frame loop planet_type is in 0..4: it
\* starts at 0, is changed only at the start of a frame by a key press (keys
\* one..five set 0..4), keeps its value in a frame without a selection key and
\* is not changed by a render pass, so the body pass and the ring and moon
\* conditions of a frame see the same planet_type and the gray fallback of
\* fragment_shader is not reached from main.
C12_PlanetTypeSelected == []C12_PlanetTypeAt /\ [][C12_PlanetTypeStep]_vars

\* Key five selected type 4 in the first frame; the second frame, without a
\* selection key, kept it, rendered the body and was presented.
C12_Witness ==
    /\ pc = "loop"
    /\ frames = 2
    /\ keys_pressed = {}
    /\ planet_type = 4
    /\ ops = <<"clear", "render_planet", "swap_buffers">>
    /\ calls # <<>>

\* ------------------------------------------------ framebuffer writes alone
\* The point calls of the passes on a small framebuffer: each step is one
\* iteration of a pass's `for fragment in fragments`, on a fragment at an
\* integer pixel center on or off the screen.
Passes == {"body", "ring", "moon"}

PassColor(pass) ==
    CASE pass = "body" -> Vector3(900, 100, 100)
      [] pass = "ring" -> Vector3(100, 900, 100)
      [] OTHER -> Vector3(100, 100, 900)

SmallPixels == Pixels(SmallWidth, 1)

\* every pixel of the small framebuffer, and one pixel center past each edge
FbPositions == SmallPixels \cup {<<-1, 0>>, <<SmallWidth, 0>>, <<0, -1>>, <<0, 1>>}

FbDepths == {100, 200}

FbInit ==
    /\ pc = "framebuffer"
    /\ should_close = FALSE
    /\ time = 0
    /\ dt = 0
    /\ planet_type = 0
    /\ framebuffer = clear(set_background_color(Framebuffer_new(SmallWidth, 1),
                                                BackgroundColor))
    /\ vertex_array = <<>>
    /\ calls = <<>>
    /\ frames = 0
    /\ presents = 0
    /\ fn = "none"
    /\ args = <<>>
    /\ ret = <<>>
    /\ keys_pressed = {}
    /\ ops = <<>>

\* framebuffer.point(fragment.position.x as i32, fragment.position.y as i32,
\*                   final_color, fragment.depth)
FbPoint ==
    /\ pc = "framebuffer"
    /\ Len(calls) < MaxCalls
    /\ \E p \in FbPositions, depth \in FbDepths, pass \in Passes :
          calls' = Append(calls,
                          PointCall(pass,
                                    Fragment_new(p[1] * SCALE, p[2] * SCALE, PassColor(pass),
                                                 depth, Vector3(0, 0, 0)),
                                    PassColor(pass)))
    /\ framebuffer' = point(framebuffer, calls'[Len(calls')].x, calls'[Len(calls')].y,
                            calls'[Len(calls')].color, calls'[Len(calls')].depth)
    /\ fn' = "point"
    /\ UNCHANGED <<pc, should_close, time, dt, planet_type, vertex_array, frames,
                   presents, args, ret, keys_pressed, ops>>

\* framebuffer.clear()
FbClear ==
    /\ pc = "framebuffer"
    /\ calls # <<>>
    /\ framebuffer' = clear(framebuffer)
    /\ calls' = <<>>
    /\ fn' = "clear"
    /\ UNCHANGED <<pc, should_close, time, dt, planet_type, vertex_array, frames,
                   presents, args, ret, keys_pressed, ops>>

FbNext == FbPoint \/ FbClear

FbSpec == FbInit /\ [][FbNext]_vars

\* the calls since the last clear() that address pixel p, in order
CallsAt(p) ==
    LET At(c) == c.x = p[1] /\ c.y = p[2]
    IN SelectSeq(calls, At)

MinDepth(hits) ==
    CHOOSE d \in {FarDepth} \cup {hits[i].depth : i \in 1..Len(hits)} :
        \A i \in 1..Len(hits) : d <= hits[i].depth

FirstAt(hits, d) == CHOOSE i \in 1..Len(hits) : hits[i].depth = d /\ \A j \in 1..(i - 1) : hits[j].depth # d

\* Each pixel holds the least depth written to it since the last clear(), with
\* the color of the first write of that depth; a pixel never written (or only
\* with depths not below the cleared depth) holds the cleared values.
C1_MinDepthFirstColor ==
    \A p \in Pixels(framebuffer.width, framebuffer.height) :
        /\ framebuffer.depth[p] = MinDepth(CallsAt(p))
        /\ framebuffer.color[p] =
              IF MinDepth(CallsAt(p)) = FarDepth THEN framebuffer.background_color
              ELSE CallsAt(p)[FirstAt(CallsAt(p), MinDepth(CallsAt(p)))].color

\* the call a step appended to calls
LastCall == calls'[Len(calls')]

IsPointStep == Len(calls') = Len(calls) + 1

InExtent(x, y) == x >= 0 /\ x < framebuffer.width /\ y >= 0 /\ y < framebuffer.height

\* One point call on an in-bounds pixel: accepted iff its depth is strictly
\* below the stored one, then color and depth of that pixel are replaced
\* together and no other pixel changes; otherwise nothing changes.
C1_DepthTestStep ==
    (IsPointStep /\ InExtent(LastCall.x, LastCall.y)) =>
        IF LastCall.depth < framebuffer.depth[<<LastCall.x, LastCall.y>>]
        THEN framebuffer' =
                [framebuffer EXCEPT !.color[<<LastCall.x, LastCall.y>>] = LastCall.color,
                                    !.depth[<<LastCall.x, LastCall.y>>] = LastCall.depth]
        ELSE framebuffer' = framebuffer

\* C1: a point call on an in-bounds pixel is accepted iff its depth is strictly
\* less than the stored depth, an accepted write replaces color and depth
\* together, a call with depth >= the stored depth changes nothing; so after
\* any sequence of calls since the last clear(), from any of the passes, each
\* pixel holds the minimum depth written to it and the color of the first
\* write that had that depth.
C1_DepthTest == []C1_MinDepthFirstColor /\ [][C1_DepthTestStep]_vars

\* Two writes of one depth and different colors to one pixel: the first one's
\* color is kept.
C1_Witness ==
    /\ pc = "framebuffer"
    /\ Len(calls) = 2
    /\ InExtent(calls[1].x, calls[1].y)
    /\ calls[1].x = calls[2].x /\ calls[1].y = calls[2].y
    /\ calls[1].depth = calls[2].depth
    /\ calls[1].color # calls[2].color
    /\ framebuffer.color[<<calls[1].x, calls[1].y>>] = calls[1].color

\* the fragment's screen position lies outside [0, width) x [0, height)
OffScreen(fragment) ==
    \/ fragment.position.x < 0 \/ fragment.position.x >= framebuffer.width * SCALE
    \/ fragment.position.y < 0 \/ fragment.position.y >= framebuffer.height * SCALE

WorldGrid == {-800, 0, 300, 1000}

BodyPositions ==
    {Vector3(x, y, z) : x \in WorldGrid, y \in WorldGrid, z \in WorldGrid}
        \cup {Vector3(600, 200, 100)}

\* planar radii 0, 1, 1.599, 1.6, 2, 2.4, 2.402 and 3, on and off the axes
RingPositions ==
    {Vector3(x, 50, 0) : x \in {0, 1000, 1599, 1600, 2400, 2402, 3000, -1600}}
        \cup {Vector3(0, 0, z) : z \in {1600, -2400, -2402}}
        \cup {Vector3(1200, -50, 1600)}

ShadeTimes == {500, 2000}

PlanetTypes == (-2)..6

\* the uniforms of main with a given time and planet type
HarnessUniforms(t, selected) ==
    Uniforms(create_model_matrix, ViewMatrix(8 * SCALE),
             create_projection_matrix(FbWidth, FbHeight),
             create_viewport_matrix(0, 0, FbWidth * SCALE, FbHeight * SCALE),
             t, 16, selected, 0)

\* a fragment of pixel (3, 2) with the given world position
FragmentAt(world_position) ==
    Fragment_new(3 * SCALE, 2 * SCALE, Vector3(SCALE, SCALE, SCALE), 500, world_position)

ShadeInit ==
    /\ pc = "shade"
    /\ should_close = FALSE
    /\ time = 0
    /\ dt = 0
    /\ planet_type = 0
    /\ framebuffer = clear(set_background_color(Framebuffer_new(SmallWidth, 1),
                                                BackgroundColor))
    /\ vertex_array = <<>>
    /\ calls = <<>>
    /\ frames = 0
    /\ presents = 0
    /\ fn = "none"
    /\ args = <<>>
    /\ ret = <<>>
    /\ keys_pressed = {}
    /\ ops = <<>>

\* render_planet's loop on one fragment
ShadePlanet ==
    /\ pc = "shade"
    /\ fn = "none"
    /\ \E wp \in BodyPositions, t \in ShadeTimes, selected \in PlanetTypes :
          args' = <<(<<FragmentAt(wp)>>), HarnessUniforms(t, selected)>>
    /\ ret' = PlanetLoop(args'[1], args'[2])
    /\ fn' = "render_planet"
    /\ UNCHANGED <<pc, should_close, time, dt, planet_type, framebuffer, vertex_array,
                   calls, frames, presents, keys_pressed, ops>>

\* render_rings' loop on two fragments
ShadeRings ==
    /\ pc = "shade"
    /\ fn = "none"
    /\ \E wp1 \in RingPositions, wp2 \in RingPositions, t \in ShadeTimes :
          args' = <<(<<FragmentAt(wp1), FragmentAt(wp2)>>), HarnessUniforms(t, 3)>>
    /\ ret' = RingLoop(args'[1], args'[2])
    /\ fn' = "render_rings"
    /\ UNCHANGED <<pc, should_close, time, dt, planet_type, framebuffer, vertex_array,
                   calls, frames, presents, keys_pressed, ops>>

\* render_moon's loop on one fragment
ShadeMoon ==
    /\ pc = "shade"
    /\ fn = "none"
    /\ \E wp \in BodyPositions, t \in ShadeTimes :
          args' = <<(<<FragmentAt(wp)>>), HarnessUniforms(t, 0)>>
    /\ ret' = MoonLoop(args'[1], args'[2])
    /\ fn' = "render_moon"
    /\ UNCHANGED <<pc, should_close, time, dt, planet_type, framebuffer, vertex_array,
                   calls, frames, presents, keys_pressed, ops>>

ShadeNext == ShadePlanet \/ ShadeRings \/ ShadeMoon

ShadeSpec == ShadeInit /\ [][ShadeNext]_vars

InUnitRange(color) ==
    /\ 0 <= color.x /\ color.x <= SCALE
    /\ 0 <= color.y /\ color.y <= SCALE
    /\ 0 <= color.z /\ color.z <= SCALE

\* C3: every color handed to framebuffer.point has its three channels in
\* [0, 1], whatever the fragment, the time and the planet type, in the body
\* pass, the ring pass and the moon pass.
C3_ColorsInUnitRange ==
    (fn \in {"render_planet", "render_rings", "render_moon"}) =>
        \A i \in 1..Len(ret) : InUnitRange(ret[i].color)

\* A gaseous color that exceeded 1 before the clamp was handed over as 1.
C3_Witness ==
    /\ fn = "render_planet"
    /\ Len(ret) = 1
    /\ UnclampedColor(args[1][1], args[2]).x > SCALE
    /\ ret[1].color.x = SCALE

\* the planar radius of the world position is in [1.6, 2.4], by the squares
InRingWindow(fragment) ==
    LET r2 == fragment.world_position.x * fragment.world_position.x
                + fragment.world_position.z * fragment.world_position.z
    IN 1600 * 1600 <= r2 /\ r2 <= 2400 * 2400

\* C5: in the ring pass framebuffer.point is called for a fragment iff the
\* planar radius sqrt(x^2 + z^2) of its world position is in [1.6, 2.4]: a
\* fragment below 1.6 or above 2.4 causes no call, the radii 1.6 and 2.4 are
\* kept, and the calls are those of the kept fragments in order.
C5_RingFilter ==
    (fn = "render_rings") =>
        /\ Len(ret) = Len(SelectSeq(args[1], InRingWindow))
        /\ \A i \in 1..Len(ret) :
              /\ ret[i].pass = "ring"
              /\ ret[i].fragment = SelectSeq(args[1], InRingWindow)[i]

\* Fragments at the radii 1.6 and 2.4 both reached point.
C5_Witness ==
    /\ fn = "render_rings"
    /\ args[1][1].world_position = Vector3(1600, 50, 0)
    /\ args[1][2].world_position = Vector3(0, 0, -2400)
    /\ Len(ret) = 2

\* C6: fragment_shader returns exactly (0.5, 0.5, 0.5) when planet_type is
\* outside 0..4, for every fragment and time, and for 0, 1, 2, 3, 4 the
\* (clamped) color of the rocky, gaseous, bioluminescent, ringed and icy
\* function.
C6_Dispatch ==
    (fn = "render_planet") =>
        LET pos == args[1][1].world_position
            t == args[2].time
            selected == args[2].planet_type
        IN /\ selected \notin 0..4 => ret[1].color = Vector3(500, 500, 500)
           /\ selected = 0 => ret[1].color = Clamp01(rocky_planet_color(pos, t))
           /\ selected = 1 => ret[1].color = Clamp01(gaseous_planet_color(pos, t))
           /\ selected = 2 => ret[1].color = Clamp01(biolum_planet_color(pos, t))
           /\ selected = 3 => ret[1].color = Clamp01(ringed_planet_color(pos, t))
           /\ selected = 4 => ret[1].color = Clamp01(ice_planet_color(pos, t))

\* A negative planet type was shaded gray where the five functions give five
\* other colors.
C6_Witness ==
    /\ fn = "render_planet"
    /\ args[2].planet_type = -1
    /\ ret[1].color = Vector3(500, 500, 500)
    /\ LET pos == args[1][1].world_position
           t == args[2].time
       IN Cardinality({Vector3(500, 500, 500), Clamp01(rocky_planet_color(pos, t)),
                       Clamp01(gaseous_planet_color(pos, t)),
                       Clamp01(biolum_planet_color(pos, t)),
                       Clamp01(ringed_planet_color(pos, t)),
                       Clamp01(ice_planet_color(pos, t))}) = 6

\* ------------------------------------------------------ the rasterizer alone
\* One triangle through the rasterizing loop of a pass, its three screen
\* positions on a grid of thirds of a pixel.
RasterGrid == {0, 300, 700, 2000}

RasterPoints == RasterGrid \X RasterGrid

\* the k-th vertex of the triangle, at screen position p
RasterVertex(p, k) ==
    Vertex(Vector3(k * 100, k * 200, 1000 - k * 300), Vector3(0, 0, SCALE), <<k, 0>>,
           Vector3(k * 300, SCALE, 0), Vector3(p[1], p[2], 100 * k), Vector3(0, 0, SCALE))

RasterInit ==
    /\ pc = "raster"
    /\ should_close = FALSE
    /\ time = 0
    /\ dt = 0
    /\ planet_type = 0
    /\ framebuffer = clear(set_background_color(Framebuffer_new(SmallWidth, 1),
                                                BackgroundColor))
    /\ vertex_array = <<>>
    /\ calls = <<>>
    /\ frames = 0
    /\ presents = 0
    /\ fn = "none"
    /\ args = <<>>
    /\ ret = <<>>
    /\ keys_pressed = {}
    /\ ops = <<>>

\* fragments.extend(triangle(&tri[0], &tri[1], &tri[2], light))
RasterTriangle ==
    /\ pc = "raster"
    /\ fn = "none"
    /\ \E a \in RasterPoints, b \in RasterPoints, c \in RasterPoints :
          args' = <<RasterVertex(a, 1), RasterVertex(b, 2), RasterVertex(c, 3)>>
    /\ ret' = Rasterize(<<args'>>, light)
    /\ fn' = "triangle"
    /\ UNCHANGED <<pc, should_close, time, dt, planet_type, framebuffer, vertex_array,
                   calls, frames, presents, keys_pressed, ops>>

RasterNext == RasterTriangle

RasterSpec == RasterInit /\ [][RasterNext]_vars

\* twice the signed area of (a, b, p), exactly
Cross2(a, b, p) == (p.x - a.x) * (b.y - a.y) - (p.y - a.y) * (b.x - a.x)

ScreenArea2 ==
    Cross2(args[1].transformed_position, args[2].transformed_position,
           args[3].transformed_position)

\* the weights of p have one sign: p is in the triangle or on its border
OneSign(p) ==
    LET e1 == Cross2(args[2].transformed_position, args[3].transformed_position, p)
        e2 == Cross2(args[3].transformed_position, args[1].transformed_position, p)
        e3 == Cross2(args[1].transformed_position, args[2].transformed_position, p)
    IN (e1 >= 0 /\ e2 >= 0 /\ e3 >= 0) \/ (e1 <= 0 /\ e2 <= 0 /\ e3 <= 0)

\* the integer pixel centers of the grid's extent
GridCenters == {Vector3(i * SCALE, j * SCALE, 0) : i \in 0..2, j \in 0..2}

EmittedCenters == {Vector3(ret[i].position.x, ret[i].position.y, 0) : i \in 1..Len(ret)}

\* C7 as stated: a triangle of positive screen area yields a non-empty
\* fragment sequence, one of zero area an empty one, and a pixel is emitted
\* only if its three weights are all non-negative or all non-positive.
C7_PositiveAreaNonEmpty ==
    (fn = "triangle") =>
        /\ ScreenArea2 # 0 => ret # <<>>
        /\ ScreenArea2 = 0 => ret = <<>>
        /\ \A p \in EmittedCenters : OneSign(p)

\* C7: a triangle of zero screen area yields no fragment; one of non-zero area
\* yields one fragment for each integer pixel center that is inside it or on
\* its border, and no other, so its sequence is non-empty iff there is such a
\* center; a pixel is emitted only if its three weights are all non-negative
\* or all non-positive.
C7_CoveredCenters ==
    (fn = "triangle") =>
        /\ ScreenArea2 = 0 => ret = <<>>
        /\ ScreenArea2 # 0 =>
              /\ EmittedCenters = {p \in GridCenters : OneSign(p)}
              /\ Len(ret) = Cardinality(EmittedCenters)
        /\ \A p \in EmittedCenters : OneSign(p)

\* A triangle of either winding around pixel centers has been rasterized.
C7_Witness ==
    /\ fn = "triangle"
    /\ ScreenArea2 < 0
    /\ Len(ret) >= 3
    /\ \E i \in 1..Len(ret) : ret[i].position.x = SCALE /\ ret[i].position.y = SCALE

\* -------------------------------------------------- triangle assembly alone
\* The vertex transform and the triangle assembly of one pass on the n
\* vertices of a mesh from `start` on, each tagged with its index.
Tagged(vec) == [i \in 1..Len(vec) |-> [vec[i] EXCEPT !.tex_coords = <<i, 0>>]]

Starts == {1, 4, 10}

AssemblyInit ==
    /\ pc = "assembly"
    /\ should_close = FALSE
    /\ time = 0
    /\ dt = 0
    /\ planet_type = 0
    /\ framebuffer = clear(set_background_color(Framebuffer_new(SmallWidth, 1),
                                                BackgroundColor))
    /\ vertex_array = <<>>
    /\ calls = <<>>
    /\ frames = 0
    /\ presents = 0
    /\ fn = "none"
    /\ args = <<>>
    /\ ret = <<>>
    /\ keys_pressed = {}
    /\ ops = <<>>

Assemble ==
    /\ pc = "assembly"
    /\ fn = "none"
    /\ \E n \in 0..MaxVerts, start \in Starts, mesh \in Meshes, t \in ShadeTimes :
          /\ vertex_array' = Tagged(SubSeq(mesh, start, start + n - 1))
          /\ \E render_type \in 0..2 : args' = <<HarnessUniforms(t, 0), render_type>>
    /\ ret' = CASE args'[2] = 0 -> planet_triangles(vertex_array', args'[1])
                [] args'[2] = 1 -> ring_triangles(vertex_array', args'[1])
                [] OTHER -> moon_triangles(vertex_array', args'[1])
    /\ fn' = "assemble"
    /\ UNCHANGED <<pc, should_close, time, dt, planet_type, framebuffer, calls, frames,
                   presents, keys_pressed, ops>>

AssemblyNext == Assemble

AssemblySpec == AssemblyInit /\ [][AssemblyNext]_vars

\* the transformed vertices of the pass that was assembled
AssembledFrom ==
    TransformVertices(vertex_array, [args[1] EXCEPT !.render_type = args[2]])

\* C8: in every pass a transformed vertex array of length n yields exactly
\* floor(n / 3) triangles, triangle k is (v[3k], v[3k+1], v[3k+2]) in source
\* order, each vertex belongs to at most one triangle, and the trailing n mod 3
\* vertices are dropped without an access past the end of the array.
C8_TriangleAssembly ==
    (fn = "assemble") =>
        /\ Len(ret) = Len(vertex_array) \div 3
        /\ \A k \in 0..(Len(ret) - 1) :
              ret[k + 1] = <<AssembledFrom[3 * k + 1], AssembledFrom[3 * k + 2],
                             AssembledFrom[3 * k + 3]>>
        /\ \A k \in 1..Len(ret) : \A j \in 1..3 : ret[k][j] # OutOfRange
        /\ Cardinality({ret[k][j].tex_coords : k \in 1..Len(ret), j \in 1..3}) = 3 * Len(ret)

\* Seven vertices were assembled into two triangles in the ring pass.
C8_Witness ==
    /\ fn = "assemble"
    /\ args[2] = 1
    /\ Len(vertex_array) = 7
    /\ Len(ret) = 2
    /\ ret[2][3].tex_coords = <<6, 0>>

\* ------------------------------------------------------ vertex_shader alone
\* One call of vertex_shader, on vertices in front of the camera, in its
\* plane (z = 8, where the clip-space w is 0) and behind it.
VertexPositions ==
    {Vector3(x, y, z) : x \in {-1000, 0, 1000}, y \in {-1000, 500},
                        z \in {-1000, 0, 8000, 9000}}

VertexInit ==
    /\ pc = "vertex"
    /\ should_close = FALSE
    /\ time = 0
    /\ dt = 0
    /\ planet_type = 0
    /\ framebuffer = clear(set_background_color(Framebuffer_new(SmallWidth, 1),
                                                BackgroundColor))
    /\ vertex_array = <<>>
    /\ calls = <<>>
    /\ frames = 0
    /\ presents = 0
    /\ fn = "none"
    /\ args = <<>>
    /\ ret = <<>>
    /\ keys_pressed = {}
    /\ ops = <<>>

ShadeVertex ==
    /\ pc = "vertex"
    /\ fn = "none"
    /\ \E position \in VertexPositions, render_type \in 0..2, t \in ShadeTimes :
          args' = <<Vertex(position, Vector3(0, 600, 800), <<250, 750>>,
                           Vector3(SCALE, 500, 0), Vector3(0, 0, 0), Vector3(0, 0, 0)),
                    [HarnessUniforms(t, 0) EXCEPT !.render_type = render_type]>>
    /\ ret' = vertex_shader(args'[1], args'[2])
    /\ fn' = "vertex_shader"
    /\ UNCHANGED <<pc, should_close, time, dt, planet_type, framebuffer, vertex_array,
                   calls, frames, presents, keys_pressed, ops>>

VertexNext == ShadeVertex

VertexSpec == VertexInit /\ [][VertexNext]_vars

\* the clip-space position of the call's vertex
ClipOfCall == ClipPosition(args[1], args[2])

\* x, y, z over w, and x, y, z themselves when w is 0
ExpectedNdc(clip) ==
    IF clip.w = 0 THEN Vector4(clip.x, clip.y, clip.z, SCALE)
    ELSE Vector4(FDiv(clip.x, clip.w), FDiv(clip.y, clip.w), FDiv(clip.z, clip.w), SCALE)

\* C9: vertex_shader never divides by a zero w: with a clip-space w of exactly
\* 0 the NDC coordinates are the clip x, y, z unchanged, with any other w each
\* of x, y, z is divided by w; either way the call returns a vertex whose
\* position, normal, texture coordinates and color are those of the input.
C9_PerspectiveDivide ==
    (fn = "vertex_shader") =>
        /\ ret.transformed_position =
              Xyz(multiply_matrix_vector4(args[2].viewport_matrix, ExpectedNdc(ClipOfCall)))
        /\ ret.position = args[1].position
        /\ ret.normal = args[1].normal
        /\ ret.tex_coords = args[1].tex_coords
        /\ ret.color = args[1].color

\* A vertex in the camera's plane, off its axis, was transformed: w is 0 and
\* the clip x, kept as it is, placed it right of the screen's middle.
C9_Witness ==
    /\ fn = "vertex_shader"
    /\ ClipOfCall.w = 0
    /\ ClipOfCall.x > 0
    /\ ret.transformed_position.x =
          (FbWidth * SCALE) \div 2 + FMul((FbWidth * SCALE) \div 2, ClipOfCall.x)
    /\ ret.position = args[1].position

====
